---- MODULE Spec2Model ----
(***************************************************************************)
(* Model of the pywalfox browser extension core:                           *)
(*   - NativeApp (src/src/communication/native-messenger.ts): the session  *)
(*     with the native messaging host;                                     *)
(*   - the colorscheme generators (src/unnamed/part_001).                  *)
(***************************************************************************)
EXTENDS Integers, Sequences, FiniteSets, TLC

VARIABLES
  isConnected,            \* NativeApp.isConnected: "undefined" until set, then "true"
  port,                   \* NativeApp.port: id of the last port returned by connectNative, 0 = unset
  openPorts,              \* ports that carry this session's listeners and have not disconnected
  nextPort,               \* number of ports handed out by browser.runtime.connectNative
  versionCheckTimeout,    \* NativeApp.versionCheckTimeout: timer handle, 0 = undefined
  connectedCheckTimeout,  \* NativeApp.connectedCheckTimeout: timer handle, 0 = undefined
  timers,                 \* pending window.setTimeout timers (handles)
  nextTimer,              \* number of timer handles handed out by window.setTimeout
  calls,                  \* callbacks invoked by the last handler, in order
  posted,                 \* port.postMessage calls made by the last handler, in order
  armedBy,                \* history: armedBy[t] is the port whose connect() armed timer t
  connectionLog,          \* history: the version and updateNeeded callbacks invoked since the
                          \* last successful connect(), each with the event that invoked it
  pywalColors,            \* argument pywalColors of the generators: a list of colors
  extendedColors,         \* EXTENDED_PYWAL_COLORS: the extended-color specs in declaration order
  colors,                 \* what generatePywalPalette returned, <<>> before the call
  customColors,           \* argument customColors: an object, role -> color
  template,               \* argument template: the colorscheme template
  themeMode,              \* argument mode: the theme mode
  palette,                \* what generatePalette returned; the argument of generatePaletteHash
  hash,                   \* what generatePaletteHash returned, NotCalled before the call
  colorscheme             \* what generateColorscheme returned, NotCalled before the call

sessionVars == <<isConnected, port, openPorts, nextPort, versionCheckTimeout,
                 connectedCheckTimeout, timers, nextTimer, calls, posted,
                 armedBy, connectionLog>>

historyVars == <<armedBy, connectionLog>>

generatorVars == <<pywalColors, extendedColors, colors, customColors, template, themeMode,
                   palette, hash, colorscheme>>

vars == <<sessionVars, generatorVars>>

----------------------------------------------------------------------------
(* Bounds *)

MaxConnects == 2   \* connect() calls explored
MaxSpecs == 2      \* extended-color specs in EXTENDED_PYWAL_COLORS
MaxCustom == 2     \* roles in customColors
MaxLog == 3        \* callbacks recorded in connectionLog within one connection
MaxKeys == 3       \* roles in a palette handed to generatePaletteHash

----------------------------------------------------------------------------
(* JavaScript values: tagged records, so that any two values can be compared *)

Undefined == [kind |-> "undefined"]
Null == [kind |-> "null"]
Str(s) == [kind |-> "string", s |-> s]
Num(n) == [kind |-> "number", n |-> n]
Bool(b) == [kind |-> "boolean", b |-> b]
Arr(items) == [kind |-> "array", items |-> items]
Obj(fields) == [kind |-> "object", fields |-> fields]

\* The outcome of a call that raised an error instead of returning
Throw(error) == [kind |-> "throw", error |-> error]

\* The value of a result variable before the call
NotCalled == [kind |-> "not called"]

\* ToBoolean
Truthy(v) ==
  CASE v.kind = "undefined" -> FALSE
    [] v.kind = "null" -> FALSE
    [] v.kind = "string" -> v.s # ""
    [] v.kind = "number" -> v.n # 0
    [] v.kind = "boolean" -> v.b
    [] OTHER -> TRUE

\* Object.prototype.hasOwnProperty.call(v, key) for a non-index key
hasOwnProperty(v, key) ==
  v.kind = "object" /\ key \in DOMAIN v.fields

\* What a template literal `${v}` prints for v
Show(v) ==
  CASE v.kind = "string" -> v.s
    [] v.kind = "null" -> "null"
    [] v.kind = "undefined" -> "undefined"
    [] v.kind = "object" -> "[object Object]"
    [] OTHER -> ToString(v)

\* message.<field> of an inbound message (a record holding the fields present)
Field(message, f) == IF f \in DOMAIN message THEN message[f] ELSE Undefined

----------------------------------------------------------------------------
(* Configuration and enumerations the session imports *)

\* NATIVE_MESSAGES of @config/general: the action tags of the wire protocol
NATIVE_MESSAGES ==
  [VERSION |-> "debug:version", OUTPUT |-> "debug:output",
   PYWAL_COLORS |-> "action:colors", INVALID_ACTION |-> "action:invalid",
   CSS_ENABLE |-> "css:enable", CSS_DISABLE |-> "css:disable",
   CSS_FONT_SIZE |-> "css:font:size", THEME_MODE |-> "theme:mode"]

\* ThemeModes of @definitions
ThemeModes == [Dark |-> "dark", Light |-> "light", Auto |-> "auto"]

\* NativeAppErrors of @definitions
NativeAppErrors ==
  [None |-> Str("None"), ManifestNotInstalled |-> Str("ManifestNotInstalled"),
   UnexpectedError |-> Str("UnexpectedError"), Unknown |-> Str("Unknown")]

----------------------------------------------------------------------------
(* Callbacks: a call is the callback's name and its argument list *)

Call(cb, args) == [cb |-> cb, args |-> args]

\* NativeApp.log: this.callbacks.output(message, error)
log(message, error) == Call("output", <<message, error>>)

\* NativeApp.logError: this.log(error, true)
logError(error) == log(error, Bool(TRUE))

\* window.clearTimeout(handle): cancels the timer if it is pending, else nothing
clearTimeout(pending, handle) == pending \ {handle}

\* NativeApp.getData: the data field if the message has one, else an error is
\* logged and null returned
getData(message) ==
  IF "data" \in DOMAIN message
    THEN [value |-> message.data, calls |-> <<>>]
    ELSE [value |-> Null,
          calls |-> <<logError(Str("Recieved invalid message from native app. The 'data' field is undefined."))>>]

\* The result of a response handler: the callbacks it invoked and the timers
\* left pending
Handled(cs, ts) == [calls |-> cs, timers |-> ts]

\* onVersionResponse without the clearTimeout of its last line
onVersionResponse_KeepsTimer(message) ==
  LET version == getData(message) IN
    Handled(version.calls \o
              (IF Truthy(version.value)
                 THEN <<Call("version", <<version.value>>)>>
                 ELSE <<Call("updateNeeded", <<>>)>>),
            timers)

\* onVersionResponse reporting the version and then, for want of an else,
\* updateNeeded as well
onVersionResponse_NoElse(message) ==
  LET version == getData(message) IN
    Handled(version.calls \o
              (IF Truthy(version.value)
                 THEN <<Call("version", <<version.value>>)>>
                 ELSE <<>>) \o <<Call("updateNeeded", <<>>)>>,
            clearTimeout(timers, versionCheckTimeout))

\* onVersionResponse clearing the timer only in the branch that reports a
\* version
onVersionResponse_ClearsWhenReported(message) ==
  LET version == getData(message) IN
    IF Truthy(version.value)
      THEN Handled(version.calls \o <<Call("version", <<version.value>>)>>,
                   clearTimeout(timers, versionCheckTimeout))
      ELSE Handled(version.calls \o <<Call("updateNeeded", <<>>)>>, timers)

\* NativeApp.onVersionResponse
onVersionResponse(message) ==
  LET version == getData(message) IN
    Handled(version.calls \o
              (IF Truthy(version.value)
                 THEN <<Call("version", <<version.value>>)>>
                 ELSE <<Call("updateNeeded", <<>>)>>),
            clearTimeout(timers, versionCheckTimeout))

\* onPywalColorsResponse passing every payload through, without the wrapping
\* of the legacy shape
onPywalColorsResponse_NoWrap(message) ==
  IF ~Truthy(Field(message, "success"))
    THEN Handled(<<Call("pywalColorsFetchFailed", <<Field(message, "error")>>)>>, timers)
    ELSE
      LET pywalData == getData(message) IN
        IF ~Truthy(pywalData.value)
          THEN Handled(pywalData.calls \o
                         <<logError(Str("Pywal data was read successfully but contained null"))>>,
                       timers)
          ELSE Handled(pywalData.calls \o
                         <<Call("pywalColorsFetchSuccess", <<pywalData.value>>)>>,
                       timers)

\* onPywalColorsResponse without the return that follows the failure callback
\* and without the check of the payload
onPywalColorsResponse_NoReturn(message) ==
  LET failed == IF ~Truthy(Field(message, "success"))
                  THEN <<Call("pywalColorsFetchFailed", <<Field(message, "error")>>)>>
                  ELSE <<>>
      pywalData == getData(message)
  IN  IF hasOwnProperty(pywalData.value, "wallpaper")
        THEN Handled(failed \o pywalData.calls \o
                       <<Call("pywalColorsFetchSuccess", <<pywalData.value>>)>>,
                     timers)
        ELSE Handled(failed \o pywalData.calls \o
                       <<Call("pywalColorsFetchSuccess",
                              <<Obj([colors |-> pywalData.value, wallpaper |-> Null])>>)>>,
                     timers)

\* NativeApp.onPywalColorsResponse
onPywalColorsResponse(message) ==
  IF ~Truthy(Field(message, "success"))
    THEN Handled(<<Call("pywalColorsFetchFailed", <<Field(message, "error")>>)>>, timers)
    ELSE
      LET pywalData == getData(message) IN
        IF ~Truthy(pywalData.value)
          THEN Handled(pywalData.calls \o
                         <<logError(Str("Pywal data was read successfully but contained null"))>>,
                       timers)
          ELSE IF hasOwnProperty(pywalData.value, "wallpaper")
            THEN Handled(pywalData.calls \o
                           <<Call("pywalColorsFetchSuccess", <<pywalData.value>>)>>,
                         timers)
            ELSE Handled(pywalData.calls \o
                           <<Call("pywalColorsFetchSuccess",
                                  <<Obj([colors |-> pywalData.value, wallpaper |-> Null])>>)>>,
                         timers)

\* NativeApp.onCssToggleResponse
onCssToggleResponse(message) ==
  LET target == getData(message) IN
    IF Truthy(Field(message, "success"))
      THEN IF ~Truthy(target.value)
             THEN Handled(target.calls \o
                            <<logError(Str("Custom CSS was applied successfully, but the target was not specified"))>>,
                          timers)
             ELSE Handled(target.calls \o <<Call("cssToggleSuccess", <<target.value>>)>>, timers)
      ELSE Handled(target.calls \o
                     <<Call("cssToggleFailed", <<target.value, Field(message, "error")>>)>>,
                   timers)

\* parseInt(value, 10) on the payloads the model sends: a decimal string or a
\* number gives the number, anything else NaN
parseInt(v) ==
  CASE v.kind = "number" -> v
    [] v.kind = "string" /\ v.s = "12" -> Num(12)
    [] v.kind = "string" /\ v.s = "14px" -> Num(14)
    [] OTHER -> [kind |-> "NaN"]

\* NativeApp.onCssFontSizeResponse
onCssFontSizeResponse(message) ==
  IF Truthy(Field(message, "success"))
    THEN LET updatedFontSize == getData(message) IN
           IF ~Truthy(updatedFontSize.value)
             THEN Handled(updatedFontSize.calls \o
                            <<logError(Str("Font size was updated successfully, but the new size was not specified"))>>,
                          timers)
             ELSE Handled(updatedFontSize.calls \o
                            <<Call("cssFontSizeSetSuccess", <<parseInt(updatedFontSize.value)>>)>>,
                          timers)
    ELSE Handled(<<Call("cssFontSizeSetFailed", <<Field(message, "error")>>)>>, timers)

\* onThemeModeResponse handing every specified mode to themeModeSet
onThemeModeResponse_Unchecked(message) ==
  LET mode == getData(message) IN
    IF ~Truthy(mode.value)
      THEN Handled(mode.calls \o
                     <<logError(Str("Received theme mode command, but the new mode was not specified"))>>,
                   timers)
      ELSE Handled(mode.calls \o <<Call("themeModeSet", <<mode.value>>)>>, timers)

\* NativeApp.onThemeModeResponse
onThemeModeResponse(message) ==
  LET mode == getData(message) IN
    IF ~Truthy(mode.value)
      THEN Handled(mode.calls \o
                     <<logError(Str("Received theme mode command, but the new mode was not specified"))>>,
                   timers)
      ELSE IF mode.value = Str(ThemeModes.Dark)
        THEN Handled(mode.calls \o <<Call("themeModeSet", <<Str(ThemeModes.Dark)>>)>>, timers)
      ELSE IF mode.value = Str(ThemeModes.Light)
        THEN Handled(mode.calls \o <<Call("themeModeSet", <<Str(ThemeModes.Light)>>)>>, timers)
      ELSE IF mode.value = Str(ThemeModes.Auto)
        THEN Handled(mode.calls \o <<Call("themeModeSet", <<Str(ThemeModes.Auto)>>)>>, timers)
      ELSE Handled(mode.calls \o
                     <<logError(Str("Received theme mode command, but the mode \"" \o Show(mode.value)
                                      \o "\" was invalid"))>>,
                   timers)

\* NativeApp.onDebuggingOutput
onDebuggingOutput(message) ==
  LET output == getData(message) IN
    IF Truthy(output.value)
      THEN Handled(output.calls \o <<Call("output", <<output.value>>)>>, timers)
      ELSE Handled(output.calls, timers)

\* The switch of NativeApp.onMessage
Dispatch(message) ==
  CASE message.action = NATIVE_MESSAGES.VERSION -> onVersionResponse(message)
    [] message.action = NATIVE_MESSAGES.OUTPUT -> onDebuggingOutput(message)
    [] message.action = NATIVE_MESSAGES.PYWAL_COLORS -> onPywalColorsResponse(message)
    [] message.action \in {NATIVE_MESSAGES.CSS_ENABLE, NATIVE_MESSAGES.CSS_DISABLE} ->
         onCssToggleResponse(message)
    [] message.action = NATIVE_MESSAGES.CSS_FONT_SIZE -> onCssFontSizeResponse(message)
    [] message.action = NATIVE_MESSAGES.THEME_MODE -> onThemeModeResponse(message)
    [] message.action = NATIVE_MESSAGES.INVALID_ACTION ->
         Handled(<<logError(Str("Native app recieved unhandled message action: " \o message.action))>>,
                 timers)
    [] OTHER ->
         Handled(<<logError(Str("Received unhandled message action: " \o message.action))>>,
                 timers)


----------------------------------------------------------------------------
(* The inputs of the session *)

\* port.error as connectNative and the disconnect event report it
ManifestPhrase == "Error: No such native application pywalfox"
UnexpectedPhrase == "Error: An unexpected error occurred"
PortError(text) == Obj([message |-> Str(text)])
PortErrors == {Null} \cup {PortError(t) : t \in {ManifestPhrase, UnexpectedPhrase, "Error: other"}}

\* payloads of a palette-fetch response: the legacy bare color list, the new
\* shape with a wallpaper, an object without wallpaper key, and falsy values
SomeColors == Arr(<<Str("#000000"), Str("#ffffff")>>)
PywalPayloads ==
  {SomeColors,
   Obj([colors |-> SomeColors]),
   Obj([colors |-> SomeColors, wallpaper |-> Str("/home/u/w.png")]),
   Obj([colors |-> SomeColors, wallpaper |-> Null]),
   Null}

VersionPayloads == {Str("2.0"), Str(""), Num(0), Null}

\* The optional fields success and error of an inbound message
WithFlags(m) ==
  {m, m @@ [success |-> Bool(TRUE)],
   m @@ [success |-> Bool(FALSE), error |-> Str("failed")]}

\* The optional field data of an inbound message
WithData(m, payloads) == {m} \cup {m @@ [data |-> d] : d \in payloads}

Messages ==
  WithData([action |-> NATIVE_MESSAGES.VERSION], VersionPayloads)
  \cup {[action |-> NATIVE_MESSAGES.VERSION, success |-> Bool(TRUE)]}
  \cup UNION {WithFlags(m) : m \in WithData([action |-> NATIVE_MESSAGES.PYWAL_COLORS], PywalPayloads)}
  \cup WithData([action |-> NATIVE_MESSAGES.OUTPUT], {Str("hello"), Str("")})
  \cup UNION {WithFlags(m) : m \in WithData([action |-> NATIVE_MESSAGES.CSS_ENABLE], {Str("userChrome")})}
  \cup UNION {WithFlags(m) : m \in WithData([action |-> NATIVE_MESSAGES.CSS_DISABLE], {Str("userChrome")})}
  \cup UNION {WithFlags(m) : m \in WithData([action |-> NATIVE_MESSAGES.CSS_FONT_SIZE], {Str("12"), Num(12)})}
  \cup WithData([action |-> NATIVE_MESSAGES.THEME_MODE],
                {Str("dark"), Str("light"), Str("auto"), Str("sepia"), Str("")})
  \cup {[action |-> NATIVE_MESSAGES.INVALID_ACTION], [action |-> "action:unheard-of"]}

Targets == {"userChrome"}
FontSizes == {12}

----------------------------------------------------------------------------
(* The session: NativeApp *)

\* sendMessage without the isConnected check
sendMessage_Unguarded(connected, p, message) ==
  [calls |-> <<>>, posted |-> <<[port |-> p, message |-> message]>>]

\* NativeApp.sendMessage: the callbacks invoked and the messages posted
sendMessage(connected, p, message) ==
  IF connected # "true"
    THEN [calls |-> <<logError(Str("Failed to send data to native app. You are not connected"))>>,
          posted |-> <<>>]
    ELSE [calls |-> <<>>, posted |-> <<[port |-> p, message |-> message]>>]

\* A request method: one sendMessage, no change of the session's fields
Request(message) ==
  LET sent == sendMessage(isConnected, port, message) IN
    /\ calls' = sent.calls
    /\ posted' = sent.posted
    /\ UNCHANGED <<isConnected, port, openPorts, nextPort, versionCheckTimeout,
                   connectedCheckTimeout, timers, nextTimer, generatorVars>>

\* NativeApp.requestVersion
requestVersion == Request([action |-> NATIVE_MESSAGES.VERSION])

\* NativeApp.requestPywalColors
requestPywalColors == Request([action |-> NATIVE_MESSAGES.PYWAL_COLORS])

\* NativeApp.requestCssEnabled
requestCssEnabled(target, enabled) ==
  Request([action |-> IF enabled THEN NATIVE_MESSAGES.CSS_ENABLE ELSE NATIVE_MESSAGES.CSS_DISABLE,
           target |-> target])

\* NativeApp.requestFontSizeSet
requestFontSizeSet(target, size) ==
  Request([action |-> NATIVE_MESSAGES.CSS_FONT_SIZE, target |-> target, size |-> size])

\* connect without the window.setTimeout that arms the version check
connect_NoTimer(error) ==
  /\ nextPort < MaxConnects
  /\ nextPort' = nextPort + 1
  /\ port' = nextPort + 1
  /\ UNCHANGED <<connectedCheckTimeout, nextTimer, versionCheckTimeout, timers, generatorVars>>
  /\ IF ~Truthy(error)
       THEN /\ isConnected' = "true"
            /\ openPorts' = openPorts \cup {port'}
            /\ LET sent == sendMessage(isConnected', port', [action |-> NATIVE_MESSAGES.VERSION]) IN
                 /\ posted' = sent.posted
                 /\ calls' = sent.calls \o <<Call("connected", <<>>)>>
       ELSE /\ calls' = <<logError(Str("Failed to connect to native app: "
                                        \o Show(error.fields.message)))>>
            /\ posted' = <<>>
            /\ UNCHANGED <<isConnected, openPorts>>

\* connect without its requestVersion call
connect_NoVersionRequest(error) ==
  /\ nextPort < MaxConnects
  /\ nextPort' = nextPort + 1
  /\ port' = nextPort + 1
  /\ UNCHANGED <<connectedCheckTimeout, generatorVars>>
  /\ posted' = <<>>
  /\ IF ~Truthy(error)
       THEN /\ isConnected' = "true"
            /\ openPorts' = openPorts \cup {port'}
            /\ nextTimer' = nextTimer + 1
            /\ versionCheckTimeout' = nextTimer'
            /\ timers' = timers \cup {nextTimer'}
            /\ calls' = <<Call("connected", <<>>)>>
       ELSE /\ calls' = <<logError(Str("Failed to connect to native app: "
                                        \o Show(error.fields.message)))>>
            /\ UNCHANGED <<isConnected, openPorts, nextTimer, versionCheckTimeout, timers>>

\* NativeApp.connect, error being the error field of the port connectNative returns
connect(error) ==
  /\ nextPort < MaxConnects
  /\ nextPort' = nextPort + 1
  /\ port' = nextPort + 1
  /\ UNCHANGED <<connectedCheckTimeout, generatorVars>>
  /\ IF ~Truthy(error)
       THEN /\ isConnected' = "true"
            /\ openPorts' = openPorts \cup {port'}             \* setupListeners
            /\ nextTimer' = nextTimer + 1                       \* window.setTimeout
            /\ versionCheckTimeout' = nextTimer'
            /\ timers' = timers \cup {nextTimer'}
            /\ LET sent == sendMessage(isConnected', port', [action |-> NATIVE_MESSAGES.VERSION]) IN
                 /\ posted' = sent.posted
                 /\ calls' = sent.calls \o <<Call("connected", <<>>)>>
       ELSE /\ calls' = <<logError(Str("Failed to connect to native app: "
                                        \o Show(error.fields.message)))>>
            /\ posted' = <<>>
            /\ UNCHANGED <<isConnected, openPorts, nextTimer, versionCheckTimeout, timers>>

\* NativeApp.onMessage: an inbound message on a port that carries the listeners
onMessage(p, message) ==
  /\ p \in openPorts
  /\ LET handled == Dispatch(message) IN
       /\ calls' = handled.calls
       /\ timers' = handled.timers
  /\ posted' = <<>>
  /\ UNCHANGED <<isConnected, port, openPorts, nextPort, versionCheckTimeout,
                 connectedCheckTimeout, nextTimer, generatorVars>>

\* The switch of NativeApp.onDisconnect: no case ends in a break, so control
\* falls through every later case down to default
ClassifyError(text) ==
  LET entersFirst == text = ManifestPhrase
      entersSecond == entersFirst \/ text = UnexpectedPhrase
      entersDefault == entersSecond \/ (text # ManifestPhrase /\ text # UnexpectedPhrase)
      afterFirst == IF entersFirst THEN NativeAppErrors.ManifestNotInstalled
                                   ELSE NativeAppErrors.None
      afterSecond == IF entersSecond THEN NativeAppErrors.UnexpectedError ELSE afterFirst
  IN  IF entersDefault THEN NativeAppErrors.Unknown ELSE afterSecond

\* The nativeError object left as it is initialised, its switch skipped
NativeError_Unclassified(error) ==
  IF Truthy(error)
    THEN Obj([type |-> NativeAppErrors.None, message |-> error.fields.message])
    ELSE Obj([type |-> NativeAppErrors.None, message |-> Null])

\* The nativeError object NativeApp.onDisconnect builds
NativeError(error) ==
  IF Truthy(error)
    THEN Obj([type |-> ClassifyError(error.fields.message.s), message |-> error.fields.message])
    ELSE Obj([type |-> NativeAppErrors.None, message |-> Null])

\* onDisconnect without the two clearTimeout calls
onDisconnect_KeepsTimers(p, error) ==
  /\ p \in openPorts
  /\ openPorts' = openPorts \ {p}
  /\ timers' = timers
  /\ calls' = <<logError(Str("Disconnected from native messaging host: " \o Show(error))),
                Call("disconnected", <<NativeError(error)>>)>>
  /\ posted' = <<>>
  /\ UNCHANGED <<isConnected, port, nextPort, versionCheckTimeout, connectedCheckTimeout,
                 nextTimer, generatorVars>>

\* NativeApp.onDisconnect: the disconnect event of port p, carrying port.error
onDisconnect(p, error) ==
  /\ p \in openPorts
  /\ openPorts' = openPorts \ {p}
  /\ timers' = clearTimeout(clearTimeout(timers, versionCheckTimeout), connectedCheckTimeout)
  /\ calls' = <<logError(Str("Disconnected from native messaging host: " \o Show(error))),
                Call("disconnected", <<NativeError(error)>>)>>
  /\ posted' = <<>>
  /\ UNCHANGED <<isConnected, port, nextPort, versionCheckTimeout, connectedCheckTimeout,
                 nextTimer, generatorVars>>

\* The version-check timer t armed by connect expires: callbacks.updateNeeded
versionCheckExpires(t) ==
  /\ t \in timers
  /\ timers' = timers \ {t}
  /\ calls' = <<Call("updateNeeded", <<>>)>>
  /\ posted' = <<>>
  /\ UNCHANGED <<isConnected, port, openPorts, nextPort, versionCheckTimeout,
                 connectedCheckTimeout, nextTimer, generatorVars>>

\* The session after construction
NativeAppInit ==
  /\ isConnected = "undefined"
  /\ port = 0
  /\ openPorts = {}
  /\ nextPort = 0
  /\ versionCheckTimeout = 0
  /\ connectedCheckTimeout = 0
  /\ timers = {}
  /\ nextTimer = 0
  /\ calls = <<>>
  /\ posted = <<>>
  /\ armedBy = <<>>
  /\ connectionLog = <<>>

\* No generator has been called
GeneratorsIdle ==
  /\ pywalColors = <<>>
  /\ extendedColors = <<>>
  /\ colors = <<>>
  /\ customColors = <<>>
  /\ template = <<>>
  /\ themeMode = ""
  /\ palette = NotCalled
  /\ hash = NotCalled
  /\ colorscheme = NotCalled

Init == NativeAppInit /\ GeneratorsIdle

\* The session's events in any order; the history is not recorded
Next ==
  \/ \E error \in PortErrors : connect(error) /\ UNCHANGED historyVars
  \/ requestVersion /\ UNCHANGED historyVars
  \/ requestPywalColors /\ UNCHANGED historyVars
  \/ \E target \in Targets, enabled \in BOOLEAN :
       requestCssEnabled(target, enabled) /\ UNCHANGED historyVars
  \/ \E target \in Targets, size \in FontSizes :
       requestFontSizeSet(target, size) /\ UNCHANGED historyVars
  \/ \E p \in openPorts, message \in Messages : onMessage(p, message) /\ UNCHANGED historyVars
  \/ \E p \in openPorts, error \in PortErrors : onDisconnect(p, error) /\ UNCHANGED historyVars
  \/ \E t \in timers : versionCheckExpires(t) /\ UNCHANGED historyVars

Spec == Init /\ [][Next]_vars

\* The event loop runs the callback of a pending timer: a timer that stays
\* pending, not cleared, expires
TimerFires == \E t \in timers : versionCheckExpires(t) /\ UNCHANGED historyVars

LiveSpec == Init /\ [][Next]_vars /\ WF_vars(TimerFires)

\* The version and updateNeeded callbacks among cs, each marked with the event
\* ("response" or "timeout") whose handler invoked it
Logged(cs, event) ==
  LET answers == SelectSeq(cs, LAMBDA c : c.cb \in {"version", "updateNeeded"})
  IN  [i \in DOMAIN answers |-> [cb |-> answers[i].cb, by |-> event]]

\* connect() called while no port of the session is open: a new connection
\* when the open succeeds
Connection(error) ==
  /\ openPorts = {}
  /\ connect(error)
  /\ armedBy' = IF Truthy(error) THEN armedBy ELSE Append(armedBy, port')
  /\ connectionLog' = IF Truthy(error) THEN connectionLog ELSE <<>>

\* An inbound message of the connection
Inbound(p, message) ==
  /\ Len(connectionLog) < MaxLog
  /\ onMessage(p, message)
  /\ connectionLog' = connectionLog \o Logged(calls', "response")
  /\ UNCHANGED armedBy

\* The disconnect event that ends the connection
Disconnection(p, error) ==
  /\ onDisconnect(p, error)
  /\ UNCHANGED historyVars

\* A pending version-check timer expires
Expiry(t) ==
  /\ versionCheckExpires(t)
  /\ connectionLog' = connectionLog \o Logged(calls', "timeout")
  /\ UNCHANGED armedBy

\* Connections one after the other, one connect() per connection: connect,
\* inbound message, timeout and disconnect events in any order
ConnectionNext ==
  \/ \E error \in PortErrors : Connection(error)
  \/ \E p \in openPorts, message \in Messages : Inbound(p, message)
  \/ \E p \in openPorts, error \in PortErrors : Disconnection(p, error)
  \/ \E t \in timers : Expiry(t)

ConnectionSpec == Init /\ [][ConnectionNext]_vars


----------------------------------------------------------------------------
(* Properties of the session *)

\* A step of one of the four request methods
AnyRequest ==
  \/ requestVersion
  \/ requestPywalColors
  \/ \E target \in Targets, enabled \in BOOLEAN : requestCssEnabled(target, enabled)
  \/ \E target \in Targets, size \in FontSizes : requestFontSizeSet(target, size)

\* The calls in cs of the callback cb
CallsOf(cs, cb) == {i \in DOMAIN cs : cs[i].cb = cb}

\* An error log entry: output(message, true)
IsErrorLog(call) == call.cb = "output" /\ Len(call.args) = 2 /\ call.args[2] = Bool(TRUE)

NotConnectedLog == logError(Str("Failed to send data to native app. You are not connected"))

\* C1: while isConnected is not true, every call of a request method posts
\* nothing on the channel and makes exactly one error log entry through the
\* output callback.
C1_RequestDroppedWhenNotConnected ==
  [][(isConnected # "true" /\ AnyRequest) =>
       /\ posted' = <<>>
       /\ Len(calls') = 1
       /\ IsErrorLog(calls'[1])]_vars

\* A request was dropped after a connect() whose open failed
C1_Witness ==
  /\ nextPort > 0
  /\ isConnected # "true"
  /\ calls = <<NotConnectedLog>>
  /\ posted = <<>>

\* C2: once the disconnect event of the session's port has been handled,
\* isConnected is not true, and a request made while the session's port is
\* disconnected posts nothing.
C2_DisconnectLeavesConnected ==
  [][/\ (\E error \in PortErrors : onDisconnect(port, error)) => isConnected' # "true"
     /\ (port \notin openPorts /\ AnyRequest) => posted' = <<>>]_vars

\* The classification the disconnected callback received in the last handler
DisconnectedWith(text) ==
  {calls[i].args[1].fields.type :
     i \in {j \in CallsOf(calls, "disconnected") :
              calls[j].args[1].fields.message = Str(text)}}

\* C3: a disconnect whose error message is the no-such-application phrase is
\* reported as ManifestNotInstalled, one whose message is the unexpected-error
\* phrase as UnexpectedError, and neither as Unknown.
C3_KnownPhrasesClassified ==
  /\ DisconnectedWith(ManifestPhrase) \subseteq {NativeAppErrors.ManifestNotInstalled}
  /\ DisconnectedWith(UnexpectedPhrase) \subseteq {NativeAppErrors.UnexpectedError}

\* The inbound version responses and palette-fetch responses
VersionResponses == {m \in Messages : m.action = NATIVE_MESSAGES.VERSION}
PywalColorsResponses == {m \in Messages : m.action = NATIVE_MESSAGES.PYWAL_COLORS}

\* C4 as stated: every version response that has a data field, whatever its
\* value, invokes version exactly once with the payload, cancels the
\* version-check timer and does not invoke updateNeeded.
C4_AnyPayloadReported ==
  [][\A p \in openPorts, m \in VersionResponses :
       (onMessage(p, m) /\ "data" \in DOMAIN m) =>
         /\ calls' = <<Call("version", <<m.data>>)>>
         /\ versionCheckTimeout \notin timers']_vars

\* C4 amended: every version response whose data field is present and truthy
\* invokes version exactly once with the payload, cancels the session's
\* version-check timer and does not invoke updateNeeded.
C4_TruthyPayloadReported ==
  [][\A p \in openPorts, m \in VersionResponses :
       (onMessage(p, m) /\ "data" \in DOMAIN m /\ Truthy(m.data)) =>
         /\ Cardinality(CallsOf(calls', "version")) = 1
         /\ \A i \in CallsOf(calls', "version") : calls'[i].args = <<m.data>>
         /\ CallsOf(calls', "updateNeeded") = {}
         /\ versionCheckTimeout \notin timers']_vars

\* A version was reported while the version-check timer was pending, and the
\* timer is no longer pending
C4_Witness ==
  /\ calls = <<Call("version", <<Str("2.0")>>)>>
  /\ versionCheckTimeout > 0
  /\ versionCheckTimeout \notin timers
  /\ port \in openPorts

\* C5: every version response without a data field invokes updateNeeded
\* exactly once and version not at all, and cancels the session's
\* version-check timer; a timer that is no longer pending never fires later.
C5_NoPayloadMeansUpdateNeeded ==
  [][/\ \A p \in openPorts, m \in VersionResponses :
          (onMessage(p, m) /\ "data" \notin DOMAIN m) =>
            /\ Cardinality(CallsOf(calls', "updateNeeded")) = 1
            /\ CallsOf(calls', "version") = {}
            /\ versionCheckTimeout \notin timers'
     /\ \A t \in 1..nextTimer : t \notin timers => t \notin timers']_vars

\* updateNeeded came from a version response without data, whose timer is
\* thereby cancelled
C5_Witness ==
  /\ Len(calls) = 2
  /\ IsErrorLog(calls[1])
  /\ calls[2] = Call("updateNeeded", <<>>)
  /\ versionCheckTimeout > 0
  /\ versionCheckTimeout \notin timers
  /\ port \in openPorts

\* The successful palette-fetch responses
FetchedMessages ==
  {m \in PywalColorsResponses :
     Truthy(Field(m, "success")) /\ "data" \in DOMAIN m}

\* C6 as stated: a successful palette-fetch response whose payload is
\* {colors: C} without wallpaper key delivers {colors: C, wallpaper: null};
\* a payload with a wallpaper key is delivered unchanged.
C6_LegacyObjectCompleted ==
  [][\A p \in openPorts, m \in FetchedMessages :
       (onMessage(p, m) /\ m.data.kind = "object") =>
         IF "wallpaper" \in DOMAIN m.data.fields
           THEN calls' = <<Call("pywalColorsFetchSuccess", <<m.data>>)>>
           ELSE calls' = <<Call("pywalColorsFetchSuccess",
                                <<Obj([colors |-> m.data.fields.colors, wallpaper |-> Null])>>)>>]_vars

\* C6 amended: a successful palette-fetch response whose payload P is truthy
\* and has no wallpaper key delivers {colors: P, wallpaper: null}, P itself
\* becoming the colors field; a payload with a wallpaper key is delivered
\* unchanged.
C6_LegacyPayloadWrapped ==
  [][\A p \in openPorts, m \in FetchedMessages :
       (onMessage(p, m) /\ Truthy(m.data)) =>
         IF m.data.kind = "object" /\ "wallpaper" \in DOMAIN m.data.fields
           THEN calls' = <<Call("pywalColorsFetchSuccess", <<m.data>>)>>
           ELSE calls' = <<Call("pywalColorsFetchSuccess",
                                <<Obj([colors |-> m.data, wallpaper |-> Null])>>)>>]_vars

\* The legacy color list was delivered wrapped
C6_Witness ==
  calls = <<Call("pywalColorsFetchSuccess", <<Obj([colors |-> SomeColors, wallpaper |-> Null])>>)>>

\* C7: a palette-fetch response with success false invokes
\* pywalColorsFetchFailed exactly once with the carried error and never
\* pywalColorsFetchSuccess; one with success true and no data field invokes
\* neither and only logs errors; no response invokes both.
C7_FetchFailureOrAnomaly ==
  [][\A p \in openPorts, m \in PywalColorsResponses :
       onMessage(p, m) =>
         /\ Field(m, "success") = Bool(FALSE) =>
              /\ Cardinality(CallsOf(calls', "pywalColorsFetchFailed")) = 1
              /\ \A i \in CallsOf(calls', "pywalColorsFetchFailed") :
                   calls'[i].args = <<Field(m, "error")>>
              /\ CallsOf(calls', "pywalColorsFetchSuccess") = {}
         /\ (Field(m, "success") = Bool(TRUE) /\ "data" \notin DOMAIN m) =>
              /\ calls' # <<>>
              /\ \A i \in DOMAIN calls' : IsErrorLog(calls'[i])
         /\ \/ CallsOf(calls', "pywalColorsFetchFailed") = {}
            \/ CallsOf(calls', "pywalColorsFetchSuccess") = {}]_vars

\* A failed fetch was reported with its error string
C7_Witness ==
  calls = <<Call("pywalColorsFetchFailed", <<Str("failed")>>)>>


----------------------------------------------------------------------------
(* The palette builder: generatePywalPalette *)

\* PYWAL_PALETTE_LENGTH: the number of colors the native app sends
PYWAL_PALETTE_LENGTH == 18

\* The colors the raw palettes are made of
HexColors == <<"#000000", "#1a2b3c", "#c0ffee", "#fafafa", "#0284f7">>

\* A raw palette: PYWAL_PALETTE_LENGTH colors, the k-th rotation of HexColors
RawPalette(k) ==
  [i \in 1..PYWAL_PALETTE_LENGTH |-> Str(HexColors[((i + k) % Len(HexColors)) + 1])]

RawPalettes == {RawPalette(k) : k \in 0..1}

\* changeLuminance of @utils/colors: a color derived from color by the
\* modifier (min and max clamp the luminance; the palettes of the model stay
\* within them)
changeLuminance(color, modifier, min, max) ==
  Str(color.s \o "*" \o modifier)

\* An ICustomPywalColor and an IExtendedPywalColor derived from another color
FixedColor(targetIndex, colorString) ==
  [targetIndex |-> targetIndex, colorString |-> colorString]
DerivedColor(targetIndex, colorIndex, modifier) ==
  [targetIndex |-> targetIndex, colorIndex |-> colorIndex, modifier |-> modifier,
   min |-> Undefined, max |-> Undefined]

\* The specs a declaration of EXTENDED_PYWAL_COLORS is drawn from
ExtendedColorChoices ==
  {FixedColor(t, "#ffffff") : t \in {0, 16, 18, 19}}
  \cup {DerivedColor(t, 0, "1.25") : t \in {17, 19}}

\* The sequences of at most n elements of S
SeqsUpTo(S, n) == UNION {[1..k -> S] : k \in 0..n}

\* isCustomColor: the spec has a colorString
isCustomColor(color) == "colorString" \in DOMAIN color

\* The index at which Array.prototype.splice(start, ...) begins on an array
\* of length len: a negative start counts from the end, and the result is
\* clamped to 0..len
SpliceStart(start, len) ==
  IF start < 0
    THEN (IF len + start < 0 THEN 0 ELSE len + start)
    ELSE (IF start > len THEN len ELSE start)

\* array.splice(start, 0, item): item inserted at 0-based index start
splice(array, start, item) ==
  LET k == SpliceStart(start, Len(array)) IN
    SubSeq(array, 1, k) \o <<item>> \o SubSeq(array, k + 1, Len(array))

\* array.splice(start, 1, item): the element at start replaced by item
splice_Replacing(array, start, item) ==
  LET k == SpliceStart(start, Len(array)) IN
    SubSeq(array, 1, k) \o <<item>> \o SubSeq(array, k + 2, Len(array))

\* The forEach of generatePywalPalette: specs[1..n] applied, in order, to the
\* growing copy of the colors
RECURSIVE Extended(_, _, _)
Extended(array, specs, n) ==
  IF n = 0
    THEN array
    ELSE LET sofar == Extended(array, specs, n - 1)
             color == specs[n]
         IN  IF isCustomColor(color)
               THEN splice(sofar, color.targetIndex, Str(color.colorString))
               ELSE splice(sofar, color.targetIndex,
                           changeLuminance(sofar[color.colorIndex + 1], color.modifier,
                                           color.min, color.max))

\* The same loop overwriting the entry at targetIndex instead of inserting
RECURSIVE Extended_Overwriting(_, _, _)
Extended_Overwriting(array, specs, n) ==
  IF n = 0
    THEN array
    ELSE LET sofar == Extended_Overwriting(array, specs, n - 1)
             color == specs[n]
         IN  IF isCustomColor(color)
               THEN splice_Replacing(sofar, color.targetIndex, Str(color.colorString))
               ELSE splice_Replacing(sofar, color.targetIndex,
                           changeLuminance(sofar[color.colorIndex + 1], color.modifier,
                                           color.min, color.max))

\* generatePywalPalette overwriting instead of inserting
generatePywalPalette_Overwriting(raw, specs) ==
  Extended_Overwriting(raw, specs, Len(specs))

\* generatePywalPalette, specs being EXTENDED_PYWAL_COLORS
generatePywalPalette(raw, specs) == Extended(raw, specs, Len(specs))

\* A call of generatePywalPalette(pywalColors)
GeneratePywalPalette ==
  /\ colors = <<>>
  /\ colors' = generatePywalPalette(pywalColors, extendedColors)
  /\ UNCHANGED <<pywalColors, extendedColors, customColors, template, themeMode, palette, hash,
                 colorscheme, sessionVars>>

\* A raw palette from the native app and a declaration of the extended colors
PywalPaletteInit ==
  /\ NativeAppInit
  /\ pywalColors \in RawPalettes
  /\ extendedColors \in SeqsUpTo(ExtendedColorChoices, MaxSpecs)
  /\ colors = <<>>
  /\ customColors = <<>>
  /\ template = <<>>
  /\ themeMode = ""
  /\ palette = NotCalled
  /\ hash = NotCalled
  /\ colorscheme = NotCalled

PywalPaletteNext == GeneratePywalPalette

PywalPaletteSpec == PywalPaletteInit /\ [][PywalPaletteNext]_vars

\* The position at which the n-th spec is inserted
InsertedAt(n) ==
  SpliceStart(extendedColors[n].targetIndex, PYWAL_PALETTE_LENGTH + n - 1)

\* C8 as stated: the result of generatePywalPalette has length 18 + specCount
\* and holds every Fixed spec's colorString at index targetIndex, for any
\* ordered list of specs.
C8_FixedColorsAtTargetIndex ==
  colors # <<>> =>
    /\ Len(colors) = PYWAL_PALETTE_LENGTH + Len(extendedColors)
    /\ \A n \in DOMAIN extendedColors :
         isCustomColor(extendedColors[n]) =>
           /\ extendedColors[n].targetIndex + 1 \in DOMAIN colors
           /\ colors[extendedColors[n].targetIndex + 1] = Str(extendedColors[n].colorString)

\* C8 amended: the result has length 18 + specCount, and it holds a Fixed
\* spec's colorString at index targetIndex whenever targetIndex lies within
\* the sequence as grown by the earlier specs (0 <= targetIndex <= 18 + number
\* of earlier specs) and every later spec is inserted at a greater position.
C8_FixedColorsStayWhenOrdered ==
  colors # <<>> =>
    /\ Len(colors) = PYWAL_PALETTE_LENGTH + Len(extendedColors)
    /\ \A n \in DOMAIN extendedColors :
         (/\ isCustomColor(extendedColors[n])
          /\ extendedColors[n].targetIndex >= 0
          /\ extendedColors[n].targetIndex <= PYWAL_PALETTE_LENGTH + n - 1
          /\ \A later \in (n + 1)..Len(extendedColors) :
               InsertedAt(later) > extendedColors[n].targetIndex) =>
           colors[extendedColors[n].targetIndex + 1] = Str(extendedColors[n].colorString)

\* A Fixed spec followed by a spec inserted further on, both applied
C8_Witness ==
  /\ colors # <<>>
  /\ Len(extendedColors) = 2
  /\ extendedColors[1] = FixedColor(16, "#ffffff")
  /\ extendedColors[2].targetIndex = 17
  /\ colors[17] = Str("#ffffff")


----------------------------------------------------------------------------
(* Objects with string keys: the entries in insertion order, which is the   *)
(* order Object.keys, Object.assign and for-each over the keys follow       *)

Entry(key, value) == [key |-> key, value |-> value]

\* Object.keys(object)
ObjectKeys(object) == [i \in DOMAIN object |-> object[i].key]

KeySet(object) == {object[i].key : i \in DOMAIN object}

\* object[key]: undefined when the object has no such key
Get(object, key) ==
  IF key \in KeySet(object)
    THEN object[CHOOSE i \in DOMAIN object : object[i].key = key].value
    ELSE Undefined

\* object[key] = value: an existing key keeps its place, a new one goes last
Set(object, key, value) ==
  IF key \in KeySet(object)
    THEN [i \in DOMAIN object |->
            IF object[i].key = key THEN Entry(key, value) ELSE object[i]]
    ELSE Append(object, Entry(key, value))

\* Object.assign(target, source)
RECURSIVE ObjectAssign(_, _)
ObjectAssign(target, source) ==
  IF source = <<>>
    THEN target
    ELSE ObjectAssign(Set(target, Head(source).key, Head(source).value), Tail(source))

\* values[index]: an element of an array by its number, a property of an
\* object by its name, undefined for anything else
Lookup(values, index) ==
  CASE index.kind = "number" ->
         IF index.n + 1 \in DOMAIN values /\ "kind" \in DOMAIN values[index.n + 1]
           THEN values[index.n + 1] ELSE Undefined
    [] index.kind = "string" -> Get(values, index.s)
    [] OTHER -> Undefined

----------------------------------------------------------------------------
(* Configuration the generators import *)

\* THEME_COLOR_KEYS: the color roles of a palette
THEME_COLOR_KEYS ==
  <<"background", "foreground", "backgroundLight", "accentPrimary", "accentSecondary", "text">>

\* PALETTE_TEMPLATE_DATA of @config/template-data: one item per role
PALETTE_TEMPLATE_DATA ==
  [i \in DOMAIN THEME_COLOR_KEYS |->
     [target |-> THEME_COLOR_KEYS[i], cssVariable |-> "--" \o THEME_COLOR_KEYS[i]]]

\* BROWSER_TEMPLATE_DATA of @config/template-data
BROWSER_TEMPLATE_DATA ==
  <<[target |-> "icons"], [target |-> "frame"], [target |-> "tab_text"]>>

\* EXTENSION_THEME_SELCTOR of @config/general
EXTENSION_THEME_SELCTOR == ":root"

\* DEFAULT_THEME_TEMPLATE: the index of each role's color in the pywal colors
DEFAULT_THEME_TEMPLATE ==
  <<Entry("accentPrimary", Num(1)), Entry("accentSecondary", Num(2)),
    Entry("background", Num(0)), Entry("foreground", Num(15)),
    Entry("text", Num(16)), Entry("backgroundLight", Num(17))>>

\* The palette templates of the model: the default, one pointing text at
\* another color, one without an index for text, one pointing beyond the colors
PaletteTemplates ==
  {DEFAULT_THEME_TEMPLATE,
   Set(DEFAULT_THEME_TEMPLATE, "text", Num(3)),
   SubSeq(DEFAULT_THEME_TEMPLATE, 1, 4) \o SubSeq(DEFAULT_THEME_TEMPLATE, 6, 6),
   Set(DEFAULT_THEME_TEMPLATE, "foreground", Num(40))}

\* The browser part of a colorscheme template: theme key -> role
BrowserTemplate ==
  <<Entry("icons", Str("foreground")), Entry("frame", Str("background")),
    Entry("tab_text", Str("text"))>>

\* An IDuckDuckGoThemeTemplateItem, with and without modifier
DuckItem(colorKey) == [colorKey |-> colorKey]
DuckItemModified(colorKey, modifier) == [colorKey |-> colorKey, modifier |-> modifier]

\* The duckduckgo part of a colorscheme template: theme key -> item
DuckDuckGoTemplate ==
  <<Entry("k7", DuckItem("background")), Entry("kj", DuckItemModified("background", "1.25")),
    Entry("k9", DuckItem("text"))>>

\* An IColorschemeTemplate
ColorschemeTemplate(paletteTemplate) ==
  [palette |-> paletteTemplate, browser |-> BrowserTemplate, duckduckgo |-> DuckDuckGoTemplate]

----------------------------------------------------------------------------
(* The theme generators *)

\* The reduce of createObjectFromTemplateData over data[1..n]
RECURSIVE Reduced(_, _, _, _)
Reduced(data, values, tmpl, n) ==
  IF n = 0
    THEN <<>>
    ELSE Set(Reduced(data, values, tmpl, n - 1), data[n].target,
             Lookup(values, Get(tmpl, data[n].target)))

\* createObjectFromTemplateData
createObjectFromTemplateData(data, values, tmpl) == Reduced(data, values, tmpl, Len(data))

\* generatePalette assigning the derived palette onto the custom colors
generatePalette_DerivedWins(colorList, custom, tmpl) ==
  ObjectAssign(custom, createObjectFromTemplateData(PALETTE_TEMPLATE_DATA, colorList, tmpl))

\* generatePalette
generatePalette(colorList, custom, tmpl) ==
  ObjectAssign(createObjectFromTemplateData(PALETTE_TEMPLATE_DATA, colorList, tmpl), custom)

\* stripHashSymbol: color.substring(1), a TypeError when color is no string
stripHashSymbol(color) ==
  IF color.kind = "string"
    THEN Str(SubSeq(color.s, 2, Len(color.s)))
    ELSE Throw("TypeError")

\* The characters of the role names by ascending code unit
CodeUnitOrder == "ABCDEFGHIJKLMNOPQRSTUVWXYZ_abcdefghijklmnopqrstuvwxyz"

CodeUnit(c) == CHOOSE i \in 1..Len(CodeUnitOrder) : SubSeq(CodeUnitOrder, i, i) = c

\* a > b on strings: the comparison of the first differing code units, a
\* proper prefix being the smaller
RECURSIVE StringGreater(_, _)
StringGreater(a, b) ==
  IF a = "" THEN FALSE
  ELSE IF b = "" THEN TRUE
  ELSE IF Head(a) = Head(b) THEN StringGreater(Tail(a), Tail(b))
  ELSE CodeUnit(Head(a)) > CodeUnit(Head(b))

\* The comparator of generatePaletteHash: (a > b) ? 1 : -1
compare(a, b) == IF StringGreater(a, b) THEN 1 ELSE -1

\* Array.prototype.sort(compare): each element is put before the first one
\* it does not compare greater than
RECURSIVE Inserted(_, _)
Inserted(sorted, key) ==
  IF sorted = <<>> THEN <<key>>
  ELSE IF compare(key, Head(sorted)) < 0 THEN <<key>> \o sorted
  ELSE <<Head(sorted)>> \o Inserted(Tail(sorted), key)

RECURSIVE sort(_)
sort(array) ==
  IF array = <<>> THEN <<>>
  ELSE Inserted(sort(SubSeq(array, 1, Len(array) - 1)), array[Len(array)])

\* The forEach of generatePaletteHash: hash += stripHashSymbol(palette[key])
RECURSIVE Concatenated(_, _, _)
Concatenated(object, keys, n) ==
  IF n = 0
    THEN Str("")
    ELSE LET sofar == Concatenated(object, keys, n - 1)
             stripped == stripHashSymbol(Get(object, keys[n]))
         IN  IF sofar.kind = "throw" THEN sofar
             ELSE IF stripped.kind = "throw" THEN stripped
             ELSE Str(sofar.s \o stripped.s)

\* generatePaletteHash without the sort of the keys
generatePaletteHash_Unsorted(object) ==
  Concatenated(object, ObjectKeys(object), Len(object))

\* generatePaletteHash
generatePaletteHash(object) ==
  Concatenated(object, sort(ObjectKeys(object)), Len(object))

\* generateBrowserTheme
generateBrowserTheme(object, tmpl) ==
  createObjectFromTemplateData(BROWSER_TEMPLATE_DATA, object, tmpl)

\* The forEach of generateDuckduckgoTheme over the first n keys of the
\* template: the theme so far, or the error raised
RECURSIVE DuckDuckGo(_, _, _)
DuckDuckGo(object, tmpl, n) ==
  IF n = 0
    THEN [threw |-> FALSE, theme |-> <<>>]
    ELSE LET sofar == DuckDuckGo(object, tmpl, n - 1)
             item == tmpl[n].value
             color == Get(object, item.colorKey)
             changed == IF "modifier" \in DOMAIN item
                          THEN (IF color.kind = "string"
                                  THEN changeLuminance(color, item.modifier, Undefined, Undefined)
                                  ELSE Throw("TypeError"))
                          ELSE color
             stripped == IF changed.kind = "throw" THEN changed ELSE stripHashSymbol(changed)
         IN  IF sofar.threw THEN sofar
             ELSE IF stripped.kind = "throw" THEN [threw |-> TRUE, theme |-> <<>>]
             ELSE [threw |-> FALSE, theme |-> Set(sofar.theme, tmpl[n].key, stripped)]

\* generateDuckduckgoTheme
generateDuckduckgoTheme(object, tmpl) == DuckDuckGo(object, tmpl, Len(tmpl))

\* The forEach of generateExtensionTheme: variables += `${cssVariable}:${palette[target]};`
RECURSIVE Variables(_, _)
Variables(object, n) ==
  IF n = 0
    THEN ""
    ELSE Variables(object, n - 1) \o PALETTE_TEMPLATE_DATA[n].cssVariable \o ":"
           \o Show(Get(object, PALETTE_TEMPLATE_DATA[n].target)) \o ";"

\* generateExtensionTheme
generateExtensionTheme(object) ==
  Str(EXTENSION_THEME_SELCTOR \o "{" \o Variables(object, Len(PALETTE_TEMPLATE_DATA)) \o "}")

\* generateDarkreaderScheme giving the dark pair for every mode but Light
generateDarkreaderScheme_DarkUnlessLight(object, m) ==
  IF m # ThemeModes.Light
    THEN <<Entry("darkSchemeTextColor", Get(object, "text")),
           Entry("darkSchemeBackgroundColor", Get(object, "background"))>>
    ELSE <<Entry("lightSchemeTextColor", Get(object, "text")),
           Entry("lightSchemeBackgroundColor", Get(object, "background"))>>

\* generateDarkreaderScheme
generateDarkreaderScheme(object, m) ==
  IF m = ThemeModes.Dark
    THEN <<Entry("darkSchemeTextColor", Get(object, "text")),
           Entry("darkSchemeBackgroundColor", Get(object, "background"))>>
    ELSE <<Entry("lightSchemeTextColor", Get(object, "text")),
           Entry("lightSchemeBackgroundColor", Get(object, "background"))>>

\* generateColorscheme: the colorscheme, or the error raised while one of its
\* fields was computed
generateColorscheme(m, colorList, custom, tmpl) ==
  LET generated == generatePalette(colorList, custom, tmpl.palette)
      hashed == generatePaletteHash(generated)
      duckduckgo == generateDuckduckgoTheme(generated, tmpl.duckduckgo)
  IN  IF hashed.kind = "throw" THEN hashed
      ELSE IF duckduckgo.threw THEN Throw("TypeError")
      ELSE [kind |-> "object",
            hash |-> hashed,
            palette |-> generated,
            browser |-> generateBrowserTheme(generated, tmpl.browser),
            extension |-> generateExtensionTheme(generated),
            duckduckgo |-> duckduckgo.theme,
            darkreader |-> generateDarkreaderScheme(generated, m)]


----------------------------------------------------------------------------
(* Calls of the palette and colorscheme generators *)

\* The colors a user may have chosen
CustomChoices == {Str("#123456"), Str("#abcdef")}

\* The objects that give at most n of the keys a value of values, in any
\* insertion order
RECURSIVE ObjectsOver(_, _, _)
ObjectsOver(keys, values, n) ==
  IF n = 0
    THEN {<<>>}
    ELSE LET smaller == ObjectsOver(keys, values, n - 1) IN
           smaller \cup
           {Append(o, Entry(k, v)) : o \in {x \in smaller : Len(x) = n - 1},
                                     k \in keys, v \in values}

\* Objects hold a key once
WellFormed(object) == Cardinality(KeySet(object)) = Len(object)

CustomColorObjects ==
  {o \in ObjectsOver({"background", "text", "accentPrimary"}, CustomChoices, MaxCustom) :
     WellFormed(o)}

\* A call of generatePalette(pywalColors, customColors, template.palette)
GeneratePalette ==
  /\ palette = NotCalled
  /\ palette' = generatePalette(pywalColors, customColors, template.palette)
  /\ UNCHANGED <<pywalColors, extendedColors, colors, customColors, template, themeMode,
                 hash, colorscheme, sessionVars>>

\* A call of generateColorscheme(mode, pywalColors, customColors, template)
GenerateColorscheme ==
  /\ colorscheme = NotCalled
  /\ colorscheme' = generateColorscheme(themeMode, pywalColors, customColors, template)
  /\ UNCHANGED <<pywalColors, extendedColors, colors, customColors, template, themeMode,
                 palette, hash, sessionVars>>

\* The declarations of EXTENDED_PYWAL_COLORS a colorscheme is generated under:
\* none, and a literal at 16 followed by a color derived from color 0 at 17
ExtendedColorDeclarations ==
  {<<>>, <<FixedColor(16, "#ffffff"), DerivedColor(17, 0, "1.25")>>}

\* The arguments of a colorscheme generation
ColorschemeInit ==
  /\ NativeAppInit
  /\ pywalColors \in RawPalettes
  /\ extendedColors \in ExtendedColorDeclarations
  /\ colors = <<>>
  /\ customColors \in CustomColorObjects
  /\ template \in {ColorschemeTemplate(t) : t \in PaletteTemplates}
  /\ themeMode \in {ThemeModes.Dark, ThemeModes.Light, ThemeModes.Auto}
  /\ palette = NotCalled
  /\ hash = NotCalled
  /\ colorscheme = NotCalled

ColorschemeNext ==
  \/ GeneratePalette
  \/ GenerateColorscheme

ColorschemeSpec == ColorschemeInit /\ [][ColorschemeNext]_vars

\* A call of generatePaletteHash(palette)
GeneratePaletteHash ==
  /\ hash = NotCalled
  /\ hash' = generatePaletteHash(palette)
  /\ UNCHANGED <<pywalColors, extendedColors, colors, customColors, template, themeMode,
                 palette, colorscheme, sessionVars>>

\* A palette whose keys were inserted in any order
HashInit ==
  /\ NativeAppInit
  /\ pywalColors = <<>>
  /\ extendedColors = <<>>
  /\ colors = <<>>
  /\ customColors = <<>>
  /\ template = <<>>
  /\ themeMode = ""
  /\ palette \in {o \in ObjectsOver({THEME_COLOR_KEYS[i] : i \in DOMAIN THEME_COLOR_KEYS},
                                     {Str("#c0ffee"), Str("#1a2b3c")}, MaxKeys) :
                    WellFormed(o)}
  /\ hash = NotCalled
  /\ colorscheme = NotCalled

HashNext == GeneratePaletteHash

HashSpec == HashInit /\ [][HashNext]_vars

----------------------------------------------------------------------------
(* Properties of the generators *)

\* The color a role has by the palette template alone
Derived(role) == Lookup(pywalColors, Get(template.palette, role))

\* The roles the palette template data names
Roles == {PALETTE_TEMPLATE_DATA[i].target : i \in DOMAIN PALETTE_TEMPLATE_DATA}

\* The color the overlay law gives a role
Overlaid(role) ==
  IF role \in KeySet(customColors) THEN Get(customColors, role) ELSE Derived(role)

\* The least of a set of names in code-unit order
Least(names) == CHOOSE k \in names : \A other \in names \ {k} : StringGreater(other, k)

\* The colors of the roles in names, as the function colorOf gives them, each
\* without its first character, concatenated by ascending role name
RECURSIVE InNameOrder(_, _)
InNameOrder(names, colorOf) ==
  IF names = {}
    THEN ""
    ELSE LET k == Least(names) IN
           SubSeq(colorOf[k].s, 2, Len(colorOf[k].s)) \o InNameOrder(names \ {k}, colorOf)

\* What the overlay law says of a palette
ObeysOverlay(object) ==
  /\ KeySet(object) = Roles \cup KeySet(customColors)
  /\ \A role \in KeySet(object) : Get(object, role) = Overlaid(role)

\* C9: the palette generatePalette returns, the palette of the colorscheme
\* generateColorscheme returns and the hash of that colorscheme use
\* customColors[r] for every role r of customColors, whatever the template
\* gives r, and the template's color for every other role.
C9_CustomColorsOverlay ==
  /\ palette # NotCalled => ObeysOverlay(palette)
  /\ (colorscheme # NotCalled /\ colorscheme.kind # "throw") =>
       /\ ObeysOverlay(colorscheme.palette)
       /\ colorscheme.hash = Str(InNameOrder(Roles \cup KeySet(customColors),
                                            [role \in Roles \cup KeySet(customColors) |->
                                               Overlaid(role)]))

\* A custom text color replaced the one of the template, in the palette and
\* in the colorscheme
C9_Witness ==
  /\ palette # NotCalled
  /\ colorscheme # NotCalled
  /\ colorscheme.kind # "throw"
  /\ "text" \in KeySet(customColors)
  /\ Derived("text").kind = "string"
  /\ Derived("text") # Get(customColors, "text")
  /\ Get(palette, "text") = Get(customColors, "text")
  /\ Get(colorscheme.palette, "text") = Get(customColors, "text")
  /\ "foreground" \notin KeySet(customColors)

\* The orders in which the keys of an object may have been inserted
Reorderings(object) ==
  {[i \in DOMAIN object |-> object[f[i]]] :
     f \in {g \in [DOMAIN object -> DOMAIN object] : \A i, j \in DOMAIN object : g[i] = g[j] => i = j}}

\* C10: the hash of a palette is the concatenation, by ascending role name,
\* of each color without its first character, and every palette with the same
\* colors under the same roles, in whatever order its keys were inserted, has
\* the same hash.
C10_HashIgnoresInsertionOrder ==
  hash # NotCalled =>
    /\ hash = Str(InNameOrder(KeySet(palette),
                           [role \in KeySet(palette) |-> Get(palette, role)]))
    /\ \A other \in Reorderings(palette) : generatePaletteHash(other) = hash

\* The hash of a palette whose keys were not inserted in name order
C10_Witness ==
  /\ hash # NotCalled
  /\ Len(palette) = 3
  /\ ObjectKeys(palette) = <<"text", "background", "accentPrimary">>
  /\ palette[1].value # palette[2].value
  /\ hash = Str(SubSeq(palette[3].value.s, 2, 7) \o SubSeq(palette[2].value.s, 2, 7)
                  \o SubSeq(palette[1].value.s, 2, 7))


\* generateColorscheme returned a colorscheme
Generated == colorscheme # NotCalled /\ colorscheme.kind # "throw"

\* The object has exactly the two keys, holding the text and the background
\* color of the generated palette
IsSchemePair(object, textKey, backgroundKey) ==
  /\ Len(object) = 2
  /\ KeySet(object) = {textKey, backgroundKey}
  /\ Get(object, textKey) = Get(colorscheme.palette, "text")
  /\ Get(object, backgroundKey) = Get(colorscheme.palette, "background")

\* C11: the darkreader scheme has exactly the keys darkSchemeTextColor and
\* darkSchemeBackgroundColor when the mode is Dark and exactly the keys
\* lightSchemeTextColor and lightSchemeBackgroundColor for Light and Auto,
\* their values being the palette's text and background; never keys of both.
C11_DarkreaderPairByMode ==
  Generated =>
    IF themeMode = ThemeModes.Dark
      THEN IsSchemePair(colorscheme.darkreader, "darkSchemeTextColor",
                        "darkSchemeBackgroundColor")
      ELSE IsSchemePair(colorscheme.darkreader, "lightSchemeTextColor",
                        "lightSchemeBackgroundColor")

\* A scheme generated for the mode Auto
C11_Witness ==
  /\ Generated
  /\ themeMode = ThemeModes.Auto
  /\ KeySet(colorscheme.darkreader) = {"lightSchemeTextColor", "lightSchemeBackgroundColor"}
  /\ Get(colorscheme.palette, "text") # Get(colorscheme.palette, "background")


\* C16: generateColorscheme never raises: it returns a colorscheme, in whose
\* palette a role that neither the palette template nor customColors supplies
\* is undefined.
C16_NeverRaises ==
  colorscheme # NotCalled =>
    /\ colorscheme.kind # "throw"
    /\ \A role \in Roles \ (KeySet(template.palette) \cup KeySet(customColors)) :
         Get(colorscheme.palette, role) = Undefined

\* C17: generateColorscheme resolves the roles against the extended palette:
\* every role that customColors does not supply has the color that
\* generatePywalPalette(rawPalette) holds at the template's index for the role.
C17_RolesFromExtendedPalette ==
  Generated =>
    \A role \in Roles \ KeySet(customColors) :
      Get(colorscheme.palette, role) =
        Lookup(generatePywalPalette(pywalColors, extendedColors), Get(template.palette, role))

----------------------------------------------------------------------------
(* Properties of the version check over a connection *)

\* C12: with one connect() per connection, a version-check timer that fires
\* was armed by the connect() of a port whose disconnect event has not been
\* handled: after the disconnect the timer never fires updateNeeded.
C12_NoStaleTimerAfterDisconnect ==
  [][\A t \in timers : versionCheckExpires(t) => armedBy[t] \in openPorts]_vars

\* The disconnect event was handled while the timer of its connection was
\* pending (no response and no expiry before it), and cancelled the timer
C12_Witness ==
  /\ armedBy # <<>>
  /\ armedBy[Len(armedBy)] \notin openPorts
  /\ connectionLog = <<>>
  /\ CallsOf(calls, "disconnected") # {}
  /\ versionCheckTimeout = Len(armedBy)
  /\ timers = {}

----------------------------------------------------------------------------
(* Properties of single session events *)

\* C13: every disconnect event invokes the disconnected callback exactly
\* once: with type None and message null when the event carries no error, and
\* with type Unknown and the carried error text as message when the text is
\* none of the known phrases.
C13_DisconnectedOnceClassified ==
  [][\A p \in openPorts, error \in PortErrors :
       onDisconnect(p, error) =>
         /\ Cardinality(CallsOf(calls', "disconnected")) = 1
         /\ \A i \in CallsOf(calls', "disconnected") :
              LET nativeError == calls'[i].args[1].fields IN
                /\ Len(calls'[i].args) = 1
                /\ ~Truthy(error) =>
                     /\ nativeError.type = NativeAppErrors.None
                     /\ nativeError.message = Null
                /\ (Truthy(error) /\ error.fields.message.s \notin {ManifestPhrase, UnexpectedPhrase}) =>
                     /\ nativeError.type = NativeAppErrors.Unknown
                     /\ nativeError.message = error.fields.message]_vars

\* A disconnect with an error text that is none of the known phrases was
\* reported as Unknown
C13_Witness ==
  /\ Len(calls) = 2
  /\ DisconnectedWith("Error: other") = {NativeAppErrors.Unknown}
  /\ port \notin openPorts

\* C14: connect() invokes the connected callback exactly when the open
\* reported no error. On success the handler has marked the session connected,
\* armed a new version-check timer whose handle the session holds, and posted
\* exactly one version request on the new port, and connected is its only
\* callback; on failure isConnected, the timers and the stored handle are
\* untouched, nothing is posted and the only callback is one error log.
C14_ConnectedIffOpened ==
  [][\A error \in PortErrors :
       connect(error) =>
         /\ (CallsOf(calls', "connected") # {}) <=> ~Truthy(error)
         /\ ~Truthy(error) =>
              /\ isConnected' = "true"
              /\ versionCheckTimeout' \in timers' \ timers
              /\ posted' = <<[port |-> port', message |-> [action |-> NATIVE_MESSAGES.VERSION]]>>
              /\ calls' = <<Call("connected", <<>>)>>
         /\ Truthy(error) =>
              /\ isConnected' = isConnected
              /\ timers' = timers
              /\ versionCheckTimeout' = versionCheckTimeout
              /\ posted' = <<>>
              /\ Len(calls') = 1
              /\ IsErrorLog(calls'[1])]_vars

\* A connect() whose port opened without error has just returned
C14_Witness ==
  /\ calls = <<Call("connected", <<>>)>>
  /\ posted = <<[port |-> port, message |-> [action |-> NATIVE_MESSAGES.VERSION]]>>
  /\ isConnected = "true"
  /\ versionCheckTimeout \in timers
  /\ port \in openPorts

\* The inbound theme-mode responses
ThemeModeResponses == {m \in Messages : m.action = NATIVE_MESSAGES.THEME_MODE}

\* C15: a theme-mode response whose data is one of the three mode values
\* Dark, Light, Auto invokes themeModeSet exactly once with that mode and
\* nothing else; with any other payload, or none, the handler invokes no
\* callback other than the error log.
C15_OnlyKnownModesSet ==
  [][\A p \in openPorts, message \in ThemeModeResponses :
       onMessage(p, message) =>
         IF /\ "data" \in DOMAIN message
            /\ message.data \in {Str(ThemeModes.Dark), Str(ThemeModes.Light), Str(ThemeModes.Auto)}
           THEN calls' = <<Call("themeModeSet", <<message.data>>)>>
           ELSE /\ calls' # <<>>
                /\ \A i \in DOMAIN calls' : IsErrorLog(calls'[i])]_vars

\* A response carrying the mode Auto has been handled
C15_Witness ==
  /\ calls = <<Call("themeModeSet", <<Str(ThemeModes.Auto)>>)>>
  /\ openPorts # {}

\* C18: at most one version-check timer is pending, and it is the one whose
\* handle the session holds, whatever the order of connect() calls, inbound
\* messages, timer expiries and disconnect events.
C18_OnlyStoredTimerPending ==
  /\ Cardinality(timers) <= 1
  /\ timers \subseteq {versionCheckTimeout}

\* The last handler invoked the callback cb
Invoked(cb) == CallsOf(calls, cb) # {}

\* C19: after every connect() that opened its port, provided a pending timer
\* that is not cleared expires, one of the callbacks version, updateNeeded and
\* disconnected is eventually invoked.
C19_VersionCheckAnswered ==
  Invoked("connected") ~> (Invoked("version") \/ Invoked("updateNeeded") \/ Invoked("disconnected"))

\* The timer of an open connection expired before any version response
C19_Witness ==
  /\ calls = <<Call("updateNeeded", <<>>)>>
  /\ port \in openPorts
  /\ versionCheckTimeout # 0
  /\ timers = {}

\* The entries of connectionLog for the callback cb, and those a version
\* response invoked: every version response invokes exactly one of the two
\* callbacks, so the latter are the version responses of the connection
LoggedCalls(cb) == {i \in DOMAIN connectionLog : connectionLog[i].cb = cb}
LoggedResponses == {i \in DOMAIN connectionLog : connectionLog[i].by = "response"}

\* updateNeeded was invoked at most once since the last successful connect(),
\* and not together with version
AnsweredOnce ==
  /\ Cardinality(LoggedCalls("updateNeeded")) <= 1
  /\ LoggedCalls("version") = {} \/ LoggedCalls("updateNeeded") = {}

\* C20 as stated: within one connection in which the helper sends at most one
\* version response, updateNeeded is invoked at most once and never together
\* with version, whatever the order of the timer expiry and the response.
C20_AnsweredOnceInAnyOrder ==
  Cardinality(LoggedResponses) <= 1 => AnsweredOnce

\* C20 as amended: the same, for a version response that is handled before
\* the version-check timer of the connection expires.
C20_AnsweredOnceWhenResponseFirst ==
  (/\ Cardinality(LoggedResponses) <= 1
   /\ \A i \in LoggedResponses : \A j \in 1..(i - 1) : connectionLog[j].by # "timeout")
    => AnsweredOnce

\* The only version response of an open connection came without data while
\* the timer was pending: updateNeeded was invoked once, and the timer is gone
C20_Witness ==
  /\ connectionLog = <<[cb |-> "updateNeeded", by |-> "response"]>>
  /\ port \in openPorts
  /\ versionCheckTimeout # 0
  /\ timers = {}

====
